---- MODULE Spec2Model ----
(***************************************************************************)
(* Model of the timingmarket vault tracker: the snapshot store (db.js),    *)
(* the provider payload normalizer and the scorers (hyperliquid.js) and    *)
(* the POST /collect ingestion handler with its hour-0 gap-fill pass, and  *)
(* the read endpoints GET /snapshots and GET /latest.                      *)
(*                                                                         *)
(* Units.  Time is counted in minutes since the epoch (the code counts     *)
(* milliseconds).  NAV, PnL and volume are integers.  A quotient the code  *)
(* computes in floating point (drawdown, percent change, returns,          *)
(* variance) is kept as an exact fraction [n, d] in lowest terms, d > 0.   *)
(* apr is counted in 1/10000 (so apr*100 > 40 reads apr > 4000) and the    *)
(* funding rate in 1/1000000 (so fundingRate*10000 > 5 reads > 500).       *)
(* The weights of the composite are counted in hundredths.                 *)
(* A nullable column or an optional field is a sequence: <<>> is           *)
(* null/undefined and <<v>> is the value v.                                *)
(***************************************************************************)
EXTENDS Integers, Sequences, FiniteSets, TLC

VARIABLES
    env,        \* process.env (CRON_SECRET, DATABASE_URL) and whether the run
                \* admits store errors and malformed timeframes (faults)
    store,      \* the snapshots table: a set of rows
    now,        \* the wall clock, in minutes
    started,    \* number of /collect invocations started so far
    pc,         \* per invocation slot: position in the handler
    raw,        \* per slot: the vault payload fetched (const raw)
    marketCtx,  \* per slot: the market context in use (const marketCtx)
    parsed,     \* per slot: parseVaultData(raw)
    queryAt,    \* per slot: the instant getSnapshots was called for the trailing rows
    snapshot,   \* per slot: the snapshot row built by the handler
    inserted,   \* per slot: what insertSnapshot returned for the live row
    gapQueue,   \* per slot: gap snapshots still to be written, in order
    gapFilled,  \* per slot: the gapFilled counter
    resp,       \* per slot: the HTTP response sent
    obs,        \* per slot: what the invocation observed (for the properties)
    fnIn,       \* input of the pure function under check
    fnOut       \* its result, <<>> until computed

vars == <<env, store, now, started, pc, raw, marketCtx, parsed, queryAt, snapshot,
          inserted, gapQueue, gapFilled, resp, obs, fnIn, fnOut>>
fnVars == <<fnIn, fnOut>>

sysVars == <<env, store, now, started, pc, raw, marketCtx, parsed, queryAt, snapshot,
             inserted, gapQueue, gapFilled, resp, obs>>

----------------------------------------------------------------------------
(* Values *)

Null == <<>>
Some(v) == <<v>>
IsNull(x) == x = <<>>
Val(x) == x[1]
\* JavaScript's  x ?? d  and  x || d  on an optional number
Coalesce(x, d) == IF IsNull(x) THEN d ELSE Val(x)
OrElse(x, d) == IF IsNull(x) \/ Val(x) = 0 THEN d ELSE Val(x)
\* JavaScript's  x || null  on an optional number, as the insert writes it
OrNull(x) == IF IsNull(x) \/ Val(x) = 0 THEN Null ELSE x

Abs(x) == IF x < 0 THEN -x ELSE x

RECURSIVE GCD(_, _)
GCD(a, b) == IF b = 0 THEN a ELSE GCD(b, a % b)

\* the quotient n / d of two numbers, d # 0
Rat(n, d) ==
    LET g == GCD(Abs(n), Abs(d))
        s == IF d < 0 THEN -1 ELSE 1
    IN  [n |-> (s * n) \div g, d |-> (s * d) \div g]
Zero == [n |-> 0, d |-> 1]
RLt(a, b) == a.n * b.d < b.n * a.d
RLe(a, b) == a.n * b.d <= b.n * a.d
LCM(a, b) == (a \div GCD(a, b)) * b
RAdd(a, b) ==
    LET m == LCM(a.d, b.d)
    IN  Rat(a.n * (m \div a.d) + b.n * (m \div b.d), m)
RNeg(a) == [n |-> -a.n, d |-> a.d]
RSub(a, b) == RAdd(a, RNeg(b))
RMul(a, b) ==
    LET g == GCD(Abs(a.n), b.d)
        h == GCD(Abs(b.n), a.d)
    IN  Rat((a.n \div g) * (b.n \div h), (a.d \div h) * (b.d \div g))
RDivInt(a, k) == RMul(a, [n |-> 1, d |-> k])
RAbs(a) == [n |-> Abs(a.n), d |-> a.d]
\* a > k/m  and  a < k/m  for a fraction a and a decimal constant k/m
RGt(a, k, m) == a.n * m > k * a.d
RLess(a, k, m) == a.n * m < k * a.d

RECURSIVE RSum(_)
RSum(s) == IF s = <<>> THEN Zero ELSE RAdd(Head(s), RSum(Tail(s)))

\* Array.prototype.filter is SelectSeq; slice(-k) and slice(0, k)
LastK(s, k) == IF Len(s) <= k THEN s ELSE SubSeq(s, Len(s) - k + 1, Len(s))
FirstK(s, k) == IF Len(s) <= k THEN s ELSE SubSeq(s, 1, k)

----------------------------------------------------------------------------
(* Time *)

MinPerHour == 60
HoursPerDay == 24
MinPerDay == HoursPerDay * MinPerHour

\* date_trunc('hour', collected_at AT TIME ZONE 'UTC')
HourOf(t) == t \div MinPerHour
\* date_trunc('day', collected_at)
DayOfShifted(t) == (t + 13 * MinPerHour) \div MinPerDay
DayOf(t) == t \div MinPerDay
\* Date.prototype.getUTCHours
GetUTCHours(t) == HourOf(t) % HoursPerDay

----------------------------------------------------------------------------
(* Time-series normalizer (hyperliquid.js) *)

\* portfolioMap[tf], undefined when the payload has no such timeframe
HasTimeframe(data, tf) == tf \in DOMAIN data.portfolio

\* .map(([ts, val]) => ({time, value: parseFloat(val)})).filter(d => d.value > 0)
IsPositive(point) == point.value > 0
NavHistoryOf(tfData) == SelectSeq(tfData.accountValueHistory, IsPositive)

\* if (point.value > ath) ath = point.value
AthStepLow(value, ath) == IF value < ath THEN value ELSE ath
AthStep(value, ath) == IF value > ath THEN value ELSE ath

\* if (d.value < maxDD) maxDD = d.value
MaxDDStepUp(dd, maxDD) == IF RLt(maxDD, dd) THEN dd ELSE maxDD
MaxDDStep(dd, maxDD) == IF RLt(dd, maxDD) THEN dd ELSE maxDD

\* the ATH / drawdown loop of parseVaultData
RECURSIVE DrawdownLoop(_, _, _)
DrawdownLoop(points, ath, hist) ==
    IF points = <<>> THEN [ath |-> ath, drawdownHistory |-> hist]
    ELSE LET point == Head(points)
             a == AthStep(point.value, ath)
             dd == Rat(point.value - a, a)
         IN  DrawdownLoop(Tail(points), a,
                          Append(hist, [time |-> point.time, value |-> dd]))

\* the max-drawdown loop of parseVaultData
RECURSIVE MaxDDLoop(_, _)
MaxDDLoop(hist, maxDD) ==
    IF hist = <<>> THEN maxDD
    ELSE MaxDDLoop(Tail(hist), MaxDDStep(Head(hist).value, maxDD))

\* parseVaultData throws 'No allTime portfolio data'
ParseThrows(data) == ~HasTimeframe(data, "allTime")

\* .filter(d => d.time > (navHistory[0]?.time || 0))
PnlHistoryOf(allTime, navHistory) ==
    LET first == IF navHistory = <<>> THEN 0 ELSE navHistory[1].time
        After(point) == point.time > first
    IN  SelectSeq(allTime.pnlHistory, After)

parseVaultData(data) ==
    LET allTime == data.portfolio["allTime"]
        navHistory == NavHistoryOf(allTime)
        pnlHistory == PnlHistoryOf(allTime, navHistory)
        currentNav == IF navHistory = <<>> THEN 0
                      ELSE navHistory[Len(navHistory)].value
        currentPnl == IF pnlHistory = <<>> THEN 0
                      ELSE pnlHistory[Len(pnlHistory)].value
        loop == DrawdownLoop(navHistory, 0, <<>>)
        ath == loop.ath
    IN  [navHistory |-> navHistory,
         pnlHistory |-> pnlHistory,
         drawdownHistory |-> loop.drawdownHistory,
         currentNav |-> currentNav,
         currentPnl |-> currentPnl,
         ath |-> ath,
         currentDrawdown |-> IF ath > 0 THEN Rat(currentNav - ath, ath) ELSE Zero,
         maxDD |-> MaxDDLoop(loop.drawdownHistory, Zero),
         apr |-> OrElse(data.apr, 0),
         vlm |-> OrElse(data.vlm, 0),
         allowDeposits |-> data.allowDeposits]

\* parseAllTimeframes: every known timeframe present, unfiltered PnL
KnownTimeframes == {"allTime", "perpAllTime", "month", "week", "day"}
parseAllTimeframes(data) ==
    [tf \in KnownTimeframes \cap DOMAIN data.portfolio |->
        [navHistory |-> NavHistoryOf(data.portfolio[tf]),
         pnlHistory |-> data.portfolio[tf].pnlHistory]]

\* parseAllTimeframes throws: a known timeframe that is present carries no
\* accountValueHistory (undefined.map)
ParseAllThrows(data) ==
    \E tf \in KnownTimeframes \cap DOMAIN data.portfolio :
        "accountValueHistory" \notin DOMAIN data.portfolio[tf]

\* pnlMap.get(time) ?? null, pnlMap filled in order so the last entry wins
RECURSIVE PnlMapGet(_, _)
PnlMapGet(pnlHistory, time) ==
    IF pnlHistory = <<>> THEN Null
    ELSE LET p == pnlHistory[Len(pnlHistory)]
         IN  IF p.time = time THEN Some(p.value)
             ELSE PnlMapGet(SubSeq(pnlHistory, 1, Len(pnlHistory) - 1), time)

\* computeWithATH of the seeding script: running ath and maxDD per point
RECURSIVE ComputeWithATHLoop(_, _, _, _, _)
ComputeWithATHLoop(points, pnlHistory, ath, maxDD, out) ==
    IF points = <<>> THEN out
    ELSE LET point == Head(points)
             a == IF point.value > ath THEN point.value ELSE ath
             dd == IF a > 0 THEN Rat(point.value - a, a) ELSE Zero
             m == IF RLt(dd, maxDD) THEN dd ELSE maxDD
         IN  ComputeWithATHLoop(Tail(points), pnlHistory, a, m,
                 Append(out, [time |-> point.time,
                              nav |-> point.value,
                              pnl |-> PnlMapGet(pnlHistory, point.time),
                              apr |-> Null,
                              ath |-> a, dd |-> dd, maxDD |-> m]))
computeWithATH(navHistory, pnlHistory) ==
    ComputeWithATHLoop(navHistory, pnlHistory, 0, Zero, <<>>)

----------------------------------------------------------------------------
(* Composite scorer (hyperliquid.js, computeSignalScores) *)

\* the weights, in hundredths
WeightDd == 25
WeightTvl == 15
WeightMomentum == 15
WeightVol == 15
WeightApr == 5
WeightFunding == 15
WeightOi == 10

\* Math.round(n / d): the nearest integer, a half rounded up
MathRound(n, d) == (2 * n + d) \div (2 * d)

\* the nine tiers on ddPct = Math.abs(currentDrawdown) * 100
DdScoreOf(currentDrawdown) ==
    LET a == RAbs(currentDrawdown)
    IN  IF RLess(a, 1, 1000) THEN 5
        ELSE IF RLess(a, 5, 1000) THEN 15
        ELSE IF RLess(a, 1, 100) THEN 25
        ELSE IF RLess(a, 2, 100) THEN 40
        ELSE IF RLess(a, 3, 100) THEN 55
        ELSE IF RLess(a, 5, 100) THEN 70
        ELSE IF RLess(a, 7, 100) THEN 85
        ELSE IF RLess(a, 9, 100) THEN 92
        ELSE 98

\* the six tiers on aprPct = (analytics.apr || 0) * 100
AprScoreOf(apr) ==
    LET a == OrElse(apr, 0)
    IN  IF a > 4000 THEN 15
        ELSE IF a > 2500 THEN 30
        ELSE IF a > 1500 THEN 50
        ELSE IF a > 800 THEN 65
        ELSE IF a > 300 THEN 75
        ELSE 90

\* the six tiers on fundingBps = (analytics.fundingRate || 0) * 10000
FundingScoreOf(fundingRate) ==
    LET f == OrElse(fundingRate, 0)
    IN  IF f > 500 THEN 90
        ELSE IF f > 200 THEN 75
        ELSE IF f > 50 THEN 60
        ELSE IF f > -50 THEN 45
        ELSE IF f > -200 THEN 25
        ELSE 15

\* the weighted sum, in hundredths
WeightedSumFlat(dd, tvl, momentum, vol, apr, funding, oi) ==
    WeightDd * dd + WeightTvl * tvl + WeightMomentum * momentum
    + WeightVol * vol + WeightApr * apr + WeightFunding * funding
    + WeightFunding * oi
WeightedSum(dd, tvl, momentum, vol, apr, funding, oi) ==
    WeightDd * dd + WeightTvl * tvl + WeightMomentum * momentum
    + WeightVol * vol + WeightApr * apr + WeightFunding * funding
    + WeightOi * oi

computeSignalScores(analytics) ==
    LET ddScore == DdScoreOf(analytics.currentDrawdown)
        tvlScore == Coalesce(analytics.tvlScore, 50)
        momentumScore == Coalesce(analytics.momentumScore, 50)
        volScore == Coalesce(analytics.volScore, 50)
        aprScore == AprScoreOf(analytics.apr)
        fundingScore == FundingScoreOf(analytics.fundingRate)
        oiScore == Coalesce(analytics.oiScore, 50)
    IN  [composite |-> MathRound(WeightedSum(ddScore, tvlScore, momentumScore,
                                             volScore, aprScore, fundingScore,
                                             oiScore), 100),
         ddScore |-> ddScore,
         tvlScore |-> tvlScore,
         momentumScore |-> momentumScore,
         volScore |-> volScore,
         aprScore |-> aprScore,
         fundingScore |-> fundingScore,
         oiScore |-> oiScore]

----------------------------------------------------------------------------
(* Trailing signal calculator (hyperliquid.js, computeTrailingSignals) *)

SevenDays == 7 * MinPerDay

\* ((currentNav - nav7dAgo) / nav7dAgo) * 100, nav7dAgo the first row of the
\* last seven days, or currentNav itself
Tvl7(snapshots, currentNav, t) ==
    LET Recent(s) == s.collected_at >= t - SevenDays
        snap7d == SelectSeq(snapshots, Recent)
        nav7dAgo == IF snap7d # <<>> THEN snap7d[1].nav ELSE currentNav
    IN  IF nav7dAgo > 0 THEN Rat((currentNav - nav7dAgo) * 100, nav7dAgo)
        ELSE Zero

\* the seven tiers on tvl7
TvlBucketLoose(tvl7) ==
    IF ~RLess(tvl7, 3, 1) THEN 10
    ELSE IF ~RLess(tvl7, 1, 1) THEN 25
    ELSE IF ~RLess(tvl7, 0, 1) THEN 40
    ELSE IF ~RLess(tvl7, -1, 1) THEN 55
    ELSE IF ~RLess(tvl7, -3, 1) THEN 70
    ELSE IF ~RLess(tvl7, -5, 1) THEN 85
    ELSE 95
TvlBucket(tvl7) ==
    IF RGt(tvl7, 3, 1) THEN 10
    ELSE IF RGt(tvl7, 1, 1) THEN 25
    ELSE IF RGt(tvl7, 0, 1) THEN 40
    ELSE IF RGt(tvl7, -1, 1) THEN 55
    ELSE IF RGt(tvl7, -3, 1) THEN 70
    ELSE IF RGt(tvl7, -5, 1) THEN 85
    ELSE 95

\* the per-step returns (curr - prev) / prev of the rows, skipping prev <= 0
RECURSIVE ReturnsOf(_)
ReturnsOf(rows) ==
    IF Len(rows) < 2 THEN <<>>
    ELSE LET prev == rows[1].nav
             curr == rows[2].nav
         IN  (IF prev > 0 THEN <<Rat(curr - prev, prev)>> ELSE <<>>)
             \o ReturnsOf(Tail(rows))

\* reduce((s, v) => s + v, 0) / length, 0 for an empty list
Mean(xs) == IF xs = <<>> THEN Zero ELSE RDivInt(RSum(xs), Len(xs))

\* the sample variance, denominator n - 1, 0 for fewer than two values
RECURSIVE SquaresSum(_, _)
SquaresSum(xs, avg) ==
    IF xs = <<>> THEN Zero
    ELSE LET dev == RSub(Head(xs), avg)
         IN  RAdd(RMul(dev, dev), SquaresSum(Tail(xs), avg))
Variance(xs) ==
    IF Len(xs) > 1 THEN RDivInt(SquaresSum(xs, Mean(xs)), Len(xs) - 1) ELSE Zero

\* the seven tiers on the mean of the last seven returns
MomentumBucket(recent7Avg) ==
    IF RGt(recent7Avg, 3, 1000) THEN 10
    ELSE IF RGt(recent7Avg, 1, 1000) THEN 25
    ELSE IF RGt(recent7Avg, 0, 1) THEN 40
    ELSE IF RGt(recent7Avg, -1, 1000) THEN 55
    ELSE IF RGt(recent7Avg, -3, 1000) THEN 70
    ELSE IF RGt(recent7Avg, -1, 100) THEN 85
    ELSE 95

\* volTrend = (currentVol - priorVol) / priorVol (0 when priorVol is 0) against
\* pct / 100, with currentVol = sqrt(variance) and priorVol = sqrt(firstVar):
\* the comparison of the square roots is made on the squares
VolTrendBelow(variance, firstVar, pct) ==
    IF firstVar.n > 0
    THEN RLt(RMul(variance, Rat(10000, 1)),
             RMul(firstVar, Rat((100 + pct) * (100 + pct), 1)))
    ELSE 0 < pct
VolTrendAbove(variance, firstVar, pct) ==
    IF firstVar.n > 0
    THEN RLt(RMul(firstVar, Rat((100 + pct) * (100 + pct), 1)),
             RMul(variance, Rat(10000, 1)))
    ELSE 0 > pct

\* the five tiers of the volatility regime;
\* vol7dAnnualized = currentVol * sqrt(365) * 100 > 10 reads variance > 1/36500
VolBucket(variance, firstVar) ==
    IF VolTrendBelow(variance, firstVar, -30) /\ RGt(variance, 1, 36500) THEN 90
    ELSE IF VolTrendBelow(variance, firstVar, -10) THEN 70
    ELSE IF VolTrendBelow(variance, firstVar, 10)
            /\ VolTrendAbove(variance, firstVar, -10) THEN 50
    ELSE IF VolTrendBelow(variance, firstVar, 30) THEN 35
    ELSE 15

\* the open-interest trend, 50 unless two rows carry a positive open interest
HasOI(s) == ~IsNull(s.open_interest) /\ Val(s.open_interest) > 0
OiScoreOf(snapshots, t) ==
    LET snapsWithOI == SelectSeq(snapshots, HasOI)
        Recent(s) == s.collected_at >= t - SevenDays
        snap7dOI == SelectSeq(snapsWithOI, Recent)
        latestOI == Val(snapsWithOI[Len(snapsWithOI)].open_interest)
        oiAgo == IF snap7dOI # <<>> THEN Val(snap7dOI[1].open_interest)
                 ELSE latestOI
        oiChange == Rat(latestOI - oiAgo, oiAgo)
    IN  IF Len(snapsWithOI) >= 2 /\ oiAgo > 0
        THEN IF RGt(oiChange, 10, 100) THEN 90
             ELSE IF RGt(oiChange, 3, 100) THEN 70
             ELSE IF RGt(oiChange, -3, 100) THEN 50
             ELSE IF RGt(oiChange, -5, 100) THEN 30
             ELSE 15
        ELSE 50

\* computeTrailingSignals(snapshots, currentNav) evaluated at Date.now() = t;
\* a null and an empty snapshots array take the same early return
computeTrailingSignals(snapshots, currentNav, t) ==
    IF Len(snapshots) < 2
    THEN [tvlScore |-> 50, momentumScore |-> 50, volScore |-> 50]
    ELSE LET returns == ReturnsOf(LastK(snapshots, 30))
             recent7Avg == Mean(LastK(returns, 7))
             firstHalf == FirstK(returns, Len(returns) \div 2)
         IN  [tvlScore |-> TvlBucket(Tvl7(snapshots, currentNav, t)),
              momentumScore |-> MomentumBucket(recent7Avg),
              volScore |-> VolBucket(Variance(returns), Variance(firstHalf)),
              oiScore |-> OiScoreOf(snapshots, t)]

\* trailingSignals.oiScore and the like: undefined when the field is absent
Field(rec, name) == IF name \in DOMAIN rec THEN Some(rec[name]) ELSE Null

----------------------------------------------------------------------------
(* Snapshot store (db.js).  The serial id column is left out: no handler   *)
(* reads its value, insertSnapshot's caller only tests the returned row.   *)

\* data.<name>, undefined when the object has no such property
Opt(data, name) == IF name \in DOMAIN data THEN data[name] ELSE Null

\* ${data.collected_at || new Date().toISOString()}
CollectedAtOf(data, t) == Coalesce(Opt(data, "collected_at"), t)

\* ON CONFLICT (date_trunc('hour', collected_at AT TIME ZONE 'UTC'))
SameInstantConflict(rows, at) == \E r \in rows : r.collected_at = at
HourConflict(rows, at) == \E r \in rows : HourOf(r.collected_at) = HourOf(at)

\* the row the INSERT writes: fifteen columns from data, the rest NULL
RowOf(data, t) ==
    [collected_at |-> CollectedAtOf(data, t),
     nav |-> data.nav,
     pnl |-> data.pnl,
     apr |-> data.apr,
     vlm |-> OrNull(Opt(data, "vlm")),
     allow_deposits |-> data.allow_deposits,
     nav_ath |-> data.nav_ath,
     drawdown_pct |-> data.drawdown_pct,
     max_drawdown |-> data.max_drawdown,
     composite_score |-> OrNull(Opt(data, "composite_score")),
     dd_score |-> OrNull(Opt(data, "dd_score")),
     tvl_score |-> OrNull(Opt(data, "tvl_score")),
     momentum_score |-> OrNull(Opt(data, "momentum_score")),
     vol_score |-> OrNull(Opt(data, "vol_score")),
     apr_score |-> OrNull(Opt(data, "apr_score")),
     funding_rate |-> Null,
     open_interest |-> Null,
     volume_24h |-> Null,
     funding_score |-> Null,
     oi_score |-> Null]

\* insertSnapshot: the table after the statement, and result[0] || null
InsertedRowsUpsert(rows, data, t) ==
    {r \in rows : HourOf(r.collected_at) # HourOf(CollectedAtOf(data, t))}
      \cup {RowOf(data, t)}
InsertedRowsAlways(rows, data, t) == rows \cup {RowOf(data, t)}
InsertedRows(rows, data, t) ==
    IF HourConflict(rows, CollectedAtOf(data, t)) THEN rows
    ELSE rows \cup {RowOf(data, t)}
InsertReturning(rows, data, t) ==
    IF HourConflict(rows, CollectedAtOf(data, t)) THEN Null
    ELSE Some([collected_at |-> CollectedAtOf(data, t)])

\* ORDER BY collected_at ASC
RECURSIVE OrderAsc(_)
OrderAsc(rows) ==
    IF rows = {} THEN <<>>
    ELSE LET first == CHOOSE r \in rows :
                          \A q \in rows : r.collected_at <= q.collected_at
         IN  <<first>> \o OrderAsc(rows \ {first})

\* ORDER BY collected_at DESC LIMIT 1
getLatestSnapshot(rows) ==
    IF rows = {} THEN Null
    ELSE LET s == OrderAsc(rows) IN Some(s[Len(s)])

\* getSnapshots: the cutoff of a range, null for 'all' and anything else
ValidRanges == {"24h", "7d", "30d", "90d", "1y", "all"}
CutoffSwapped(range, t) ==
    CASE range = "24h" -> Some(t - MinPerDay)
      [] range = "7d" -> Some(t - 30 * MinPerDay)
      [] range = "30d" -> Some(t - 7 * MinPerDay)
      [] range = "90d" -> Some(t - 90 * MinPerDay)
      [] range = "1y" -> Some(t - 365 * MinPerDay)
      [] OTHER -> Null
CutoffOf(range, t) ==
    CASE range = "24h" -> Some(t - MinPerDay)
      [] range = "7d" -> Some(t - 7 * MinPerDay)
      [] range = "30d" -> Some(t - 30 * MinPerDay)
      [] range = "90d" -> Some(t - 90 * MinPerDay)
      [] range = "1y" -> Some(t - 365 * MinPerDay)
      [] OTHER -> Null

\* resolution 'auto': raw hourly up to seven days, daily beyond
ResolutionOf(range, resolution) ==
    IF resolution = "auto"
    THEN IF range \in {"24h", "7d"} THEN "hourly" ELSE "daily"
    ELSE resolution

\* WHERE collected_at >= cutoff
RowsFrom(rows, cut) ==
    IF IsNull(cut) THEN rows ELSE {r \in rows : r.collected_at >= Val(cut)}

\* AVG(column) over the rows of a group: NULLs are skipped, NULL when all are
RECURSIVE PresentValues(_, _)
PresentValues(rowSeq, column) ==
    IF rowSeq = <<>> THEN <<>>
    ELSE (IF IsNull(Head(rowSeq)[column]) THEN <<>>
          ELSE <<Rat(Val(Head(rowSeq)[column]), 1)>>)
         \o PresentValues(Tail(rowSeq), column)
AvgNullable(rowSeq, column) ==
    LET xs == PresentValues(rowSeq, column)
    IN  IF xs = <<>> THEN Null ELSE Some(Mean(xs))
\* AVG(column)::integer: the mean rounded to the nearest integer
AvgInteger(rowSeq, column) ==
    LET avg == AvgNullable(rowSeq, column)
    IN  IF IsNull(avg) THEN Null ELSE Some(MathRound(Val(avg).n, Val(avg).d))

RECURSIVE NumericValues(_, _)
NumericValues(rowSeq, column) ==
    IF rowSeq = <<>> THEN <<>>
    ELSE <<Head(rowSeq)[column]>> \o NumericValues(Tail(rowSeq), column)
RECURSIVE IntValues(_, _)
IntValues(rowSeq, column) ==
    IF rowSeq = <<>> THEN <<>>
    ELSE <<Rat(Head(rowSeq)[column], 1)>> \o IntValues(Tail(rowSeq), column)

\* one row of the daily SELECT: the aggregates of the rows of one UTC day
DailyRow(group) ==
    LET rowSeq == OrderAsc(group)
    IN  [collected_at |-> DayOf(rowSeq[1].collected_at) * MinPerDay,
         nav |-> Mean(IntValues(rowSeq, "nav")),
         pnl |-> AvgNullable(rowSeq, "pnl"),
         apr |-> AvgNullable(rowSeq, "apr"),
         vlm |-> AvgNullable(rowSeq, "vlm"),
         allow_deposits |-> \A r \in group : r.allow_deposits,
         nav_ath |-> CHOOSE m \in {r.nav_ath : r \in group} :
                         \A r \in group : r.nav_ath <= m,
         drawdown_pct |-> Mean(NumericValues(rowSeq, "drawdown_pct")),
         max_drawdown |-> CHOOSE m \in {r.max_drawdown : r \in group} :
                              \A r \in group : RLe(m, r.max_drawdown),
         composite_score |-> AvgInteger(rowSeq, "composite_score"),
         dd_score |-> AvgInteger(rowSeq, "dd_score"),
         tvl_score |-> AvgInteger(rowSeq, "tvl_score"),
         momentum_score |-> AvgInteger(rowSeq, "momentum_score"),
         vol_score |-> AvgInteger(rowSeq, "vol_score"),
         apr_score |-> AvgInteger(rowSeq, "apr_score")]

\* GROUP BY date_trunc('day', collected_at) ORDER BY collected_at ASC
DailyRows(rows) ==
    OrderAsc({DailyRow({r \in rows : DayOf(r.collected_at) = d}) :
                 d \in {DayOf(r.collected_at) : r \in rows}})

getSnapshots(rows, range, resolution, t) ==
    LET cut == CutoffOf(range, t)
    IN  IF ResolutionOf(range, resolution) = "daily"
        THEN DailyRows(RowsFrom(rows, cut))
        ELSE OrderAsc(RowsFrom(rows, cut))

----------------------------------------------------------------------------
(* The environment of the model: the clock, the provider, the requests *)

\* the most /collect invocations of one run, and the longest input series
MaxCycles == 3
MaxLen == 4

\* the handler invocations that may be in flight together
Slots == {"a", "b"}

\* the instants the clock visits: day 40 at 00:10, 00:40 and 01:10 (UTC)
Instants == {40 * MinPerDay + 10, 40 * MinPerDay + 40, 40 * MinPerDay + 70}
FirstInstant == 40 * MinPerDay + 10

Point(time, value) == [time |-> time, value |-> value]

\* payloads of the vault-detail request.  HistoricPayload: the NAV fell from
\* its high; month holds a non-positive point and ends below its own high;
\* week starts before the last point of month.  FreshHighPayload: the NAV is at a new high, no other timeframe,
\* no apr.  PartialPayload: no allTime timeframe.
HistoricPayload ==
    [portfolio |->
        [allTime |->
            [accountValueHistory |->
                <<Point(10 * MinPerDay, 90), Point(20 * MinPerDay, 120),
                  Point(39 * MinPerDay, 90)>>,
             pnlHistory |->
                <<Point(10 * MinPerDay, 0), Point(20 * MinPerDay, 30),
                  Point(39 * MinPerDay, -10)>>],
         month |->
            [accountValueHistory |->
                <<Point(39 * MinPerDay + 600, 60), Point(39 * MinPerDay + 630, 0),
                  Point(39 * MinPerDay + 700, 30)>>,
             pnlHistory |-> <<Point(39 * MinPerDay + 600, -5)>>],
         week |->
            [accountValueHistory |-> <<Point(39 * MinPerDay + 540, 120)>>,
             pnlHistory |-> <<>>]],
     apr |-> Some(1200), vlm |-> Some(5), allowDeposits |-> Some(TRUE)]
FreshHighPayload ==
    [portfolio |->
        [allTime |->
            [accountValueHistory |->
                <<Point(10 * MinPerDay, 90), Point(20 * MinPerDay, 120),
                  Point(40 * MinPerDay, 180)>>,
             pnlHistory |-> <<Point(40 * MinPerDay, 20)>>]],
     apr |-> Null, vlm |-> Null, allowDeposits |-> Some(FALSE)]
PartialPayload ==
    [portfolio |->
        [month |->
            [accountValueHistory |-> <<Point(39 * MinPerDay + 600, 60)>>,
             pnlHistory |-> <<>>]],
     apr |-> Some(1200), vlm |-> Some(5), allowDeposits |-> Null]
Payloads == {HistoricPayload, FreshHighPayload, PartialPayload}
\* HistoricPayload with a week timeframe that lacks its accountValueHistory
MalformedPayload ==
    [HistoricPayload EXCEPT
        !.portfolio = [allTime |-> HistoricPayload.portfolio.allTime,
                       week |-> [pnlHistory |-> <<>>]]]

\* outcomes of fetchVaultDetails and of fetchMarketContext
Failed == [ok |-> FALSE]
Fetched(value) == [ok |-> TRUE, value |-> value]
VaultResults == {Failed} \cup {Fetched(p) : p \in Payloads}
VaultResultsOf(e) ==
    IF e.faults THEN VaultResults \cup {Fetched(MalformedPayload)}
    ELSE VaultResults
MarketResults ==
    {Failed,
     Fetched([fundingRate |-> 40, openInterest |-> 1000, volume24h |-> 500])}

\* process.env: CRON_SECRET and DATABASE_URL, set or not; faults: whether a
\* statement sent to the store may fail and a timeframe may be malformed
Environments ==
    {[CRON_SECRET |-> Some("s"), DATABASE_URL |-> Some("db"), faults |-> FALSE],
     [CRON_SECRET |-> Null, DATABASE_URL |-> Null, faults |-> FALSE]}
ServiceEnvironments ==
    [CRON_SECRET : {Null, Some("s")}, DATABASE_URL : {Null, Some("db")},
     faults : BOOLEAN]
\* whether the statement about to run throws
StoreFaults(e) == IF e.faults THEN {FALSE, TRUE} ELSE {FALSE}
\* req.headers['authorization'], as the token after 'Bearer '
AuthHeaders == {Null, Some("s"), Some("x")}

----------------------------------------------------------------------------
(* POST /collect (api/collect.js) *)

NoResponse == [status |-> 0]
Unauthorized == [status |-> 401, error |-> "Unauthorized"]
ServerErrorGeneric(message) == [status |-> 500, error |-> "Internal error"]
ServerError(message) == [status |-> 500, error |-> message]

\* cronSecret && authHeader !== `Bearer ${cronSecret}`
AuthRejectsUnlessEqual(e, header) == header # e.CRON_SECRET
AuthRejects(e, header) == ~IsNull(e.CRON_SECRET) /\ header # e.CRON_SECRET
\* getDb throws when DATABASE_URL is not set
GetDbThrows(e) == IsNull(e.DATABASE_URL)

\* fetchMarketContext().catch(() => ({fundingRate: 0, openInterest: 0, volume24h: 0}))
MarketCtxStale(result) ==
    IF result.ok THEN result.value
    ELSE [fundingRate |-> 40, openInterest |-> 1000, volume24h |-> 500]
MarketCtxOf(result) ==
    IF result.ok THEN result.value
    ELSE [fundingRate |-> 0, openInterest |-> 0, volume24h |-> 0]

\* the scores of the cycle: computeSignalScores({...parsed, ...trailing scores,
\* fundingRate, oiScore})
ScoresOf(p, trailingSignals, ctx) ==
    computeSignalScores(
        [currentDrawdown |-> p.currentDrawdown,
         apr |-> Some(p.apr),
         tvlScore |-> Field(trailingSignals, "tvlScore"),
         momentumScore |-> Field(trailingSignals, "momentumScore"),
         volScore |-> Field(trailingSignals, "volScore"),
         fundingRate |-> Some(ctx.fundingRate),
         oiScore |-> Field(trailingSignals, "oiScore")])

\* the snapshot row the handler builds at instant t
SnapshotOf(p, scores, ctx, t) ==
    [collected_at |-> Some(t),
     nav |-> p.currentNav,
     pnl |-> Some(p.currentPnl),
     apr |-> Some(p.apr),
     vlm |-> Some(p.vlm),
     allow_deposits |-> p.allowDeposits # Some(FALSE),
     nav_ath |-> p.ath,
     drawdown_pct |-> p.currentDrawdown,
     max_drawdown |-> p.maxDD,
     composite_score |-> Some(scores.composite),
     dd_score |-> Some(scores.ddScore),
     tvl_score |-> Some(scores.tvlScore),
     momentum_score |-> Some(scores.momentumScore),
     vol_score |-> Some(scores.volScore),
     apr_score |-> Some(scores.aprScore),
     funding_rate |-> Some(ctx.fundingRate),
     open_interest |-> Some(ctx.openInterest),
     volume_24h |-> Some(ctx.volume24h),
     funding_score |-> Some(scores.fundingScore),
     oi_score |-> Some(scores.oiScore)]

\* the gap snapshots of one timeframe, in the order of its points, each with
\* the running ath and maxDD of the points before it
RECURSIVE GapLoop(_, _, _, _, _)
GapLoop(points, pnlHistory, ath, maxDD, out) ==
    IF points = <<>> THEN out
    ELSE LET point == Head(points)
             a == IF point.value > ath THEN point.value ELSE ath
             dd == IF a > 0 THEN Rat(point.value - a, a) ELSE Zero
             m == IF RLt(dd, maxDD) THEN dd ELSE maxDD
         IN  GapLoop(Tail(points), pnlHistory, a, m,
                 Append(out, [collected_at |-> Some(point.time),
                              nav |-> point.value,
                              pnl |-> PnlMapGet(pnlHistory, point.time),
                              apr |-> Null,
                              nav_ath |-> a,
                              drawdown_pct |-> dd,
                              max_drawdown |-> m,
                              allow_deposits |-> TRUE]))
\* the replay of a timeframe taken from its newest point backwards
NewestFirst(points) == [i \in 1..Len(points) |-> points[Len(points) + 1 - i]]
GapSnapshotsNewestFirst(timeframes, tf) ==
    IF tf \in DOMAIN timeframes
    THEN GapLoop(NewestFirst(timeframes[tf].navHistory), timeframes[tf].pnlHistory,
                 0, Zero, <<>>)
    ELSE <<>>
GapSnapshotsOf(timeframes, tf) ==
    IF tf \in DOMAIN timeframes
    THEN GapLoop(timeframes[tf].navHistory, timeframes[tf].pnlHistory,
                 0, Zero, <<>>)
    ELSE <<>>
\* for (const tf of ['month', 'week'])
GapSnapshots(data) ==
    LET timeframes == parseAllTimeframes(data)
    IN  GapSnapshotsOf(timeframes, "month") \o GapSnapshotsOf(timeframes, "week")

\* res.status(200).json({success, snapshot: inserted || snapshot, skipped, gapFilled})
Collected(ins, snap, filled) ==
    [status |-> 200,
     success |-> TRUE,
     snapshot |-> IF IsNull(ins) THEN snap ELSE Val(ins),
     skipped |-> IsNull(ins),
     gapFilled |-> filled]

\* catch (gapErr): the warning is logged and the response is sent as usual
GapEscapes(ins, snap, filled) == ServerError("store error")
GapCaught(ins, snap, filled) == Collected(ins, snap, filled)

Active(c) == pc[c] \notin {"idle", "done"}
\* what an invocation observed: the slots in flight together with it, the
\* outcome of the two fetches, whether the trailing rows were fewer than two
\* (and those with open interest), whether the hour of the live row was
\* populated when its INSERT ran
NoObs == [header |-> Null, peers |-> {}, vault |-> "none", marketFailed |-> FALSE,
          shortHistory |-> Null, fewOI |-> Null, hourHeld |-> Null,
          gapFailed |-> FALSE]

\* no invocation in flight
IdleSys ==
    /\ now = FirstInstant
    /\ started = 0
    /\ pc = [c \in Slots |-> "idle"]
    /\ raw = [c \in Slots |-> Null]
    /\ marketCtx = [c \in Slots |-> Null]
    /\ parsed = [c \in Slots |-> Null]
    /\ queryAt = [c \in Slots |-> Null]
    /\ snapshot = [c \in Slots |-> Null]
    /\ inserted = [c \in Slots |-> Null]
    /\ gapQueue = [c \in Slots |-> <<>>]
    /\ gapFilled = [c \in Slots |-> 0]
    /\ resp = [c \in Slots |-> NoResponse]
    /\ obs = [c \in Slots |-> NoObs]

InitSys ==
    /\ env \in Environments
    /\ store = {}
    /\ IdleSys

\* the locals of a finished invocation are dropped
Finish(c, response) ==
    /\ pc' = [pc EXCEPT ![c] = "done"]
    /\ resp' = [resp EXCEPT ![c] = response]
    /\ raw' = [raw EXCEPT ![c] = Null]
    /\ parsed' = [parsed EXCEPT ![c] = Null]
    /\ queryAt' = [queryAt EXCEPT ![c] = Null]
    /\ gapQueue' = [gapQueue EXCEPT ![c] = <<>>]
    /\ marketCtx' = [marketCtx EXCEPT ![c] = Null]
    /\ snapshot' = [snapshot EXCEPT ![c] = Null]
    /\ inserted' = [inserted EXCEPT ![c] = Null]
    /\ gapFilled' = [gapFilled EXCEPT ![c] = 0]

\* a request arrives: the bearer check, then getDb, then both fetches start
Start(c) ==
    /\ pc[c] \in {"idle", "done"}
    /\ started < MaxCycles
    /\ started' = started + 1
    /\ \E header \in AuthHeaders :
          /\ IF AuthRejects(env, header) THEN Finish(c, Unauthorized)
             ELSE IF GetDbThrows(env)
             THEN Finish(c, ServerError("DATABASE_URL environment variable is not set"))
             ELSE /\ pc' = [pc EXCEPT ![c] = "fetching"]
                  /\ resp' = [resp EXCEPT ![c] = NoResponse]
                  /\ UNCHANGED <<raw, parsed, queryAt, gapQueue, marketCtx,
                                 snapshot, inserted, gapFilled>>
          /\ obs' = [d \in Slots |->
                 IF d = c
                 THEN [NoObs EXCEPT !.header = header,
                                    !.peers = {e \in Slots \ {c} : Active(e)}]
                 ELSE IF Active(d) /\ pc'[c] = "fetching"
                      THEN [obs[d] EXCEPT !.peers = @ \cup {c}]
                      ELSE obs[d]]
    /\ UNCHANGED <<env, store, now, fnVars>>

\* Promise.all settles: a vault failure rejects it, a market failure is
\* replaced by the zeroed context; then parseVaultData and the call of
\* getSnapshots(sql, '30d', 'hourly')
FetchDone(c) ==
    /\ pc[c] = "fetching"
    /\ \E vault \in VaultResultsOf(env), market \in MarketResults :
          /\ obs' = [obs EXCEPT ![c].marketFailed = ~market.ok,
                                ![c].vault = IF ~vault.ok THEN "failed"
                                             ELSE IF ParseThrows(vault.value)
                                             THEN "noAllTime" ELSE "ok"]
          /\ IF ~vault.ok
             THEN Finish(c, ServerError("Hyperliquid API error"))
             ELSE IF ParseThrows(vault.value)
             THEN Finish(c, ServerError("No allTime portfolio data"))
             ELSE /\ pc' = [pc EXCEPT ![c] = "reading"]
                  /\ raw' = [raw EXCEPT ![c] = vault.value]
                  /\ marketCtx' = [marketCtx EXCEPT ![c] = MarketCtxOf(market)]
                  /\ parsed' = [parsed EXCEPT ![c] = parseVaultData(vault.value)]
                  /\ queryAt' = [queryAt EXCEPT ![c] = now]
                  /\ UNCHANGED <<resp, gapQueue, snapshot, inserted, gapFilled>>
    /\ UNCHANGED <<env, store, now, started, fnVars>>

\* the trailing rows arrive (or the query throws): the trailing signals, the
\* scores and the snapshot row are computed and insertSnapshot is called
ReadTrailing(c) ==
    /\ pc[c] = "reading"
    /\ \E throws \in StoreFaults(env) :
          IF throws
          THEN /\ Finish(c, ServerError("store error"))
               /\ UNCHANGED obs
          ELSE LET trailing == getSnapshots(store, "30d", "hourly", queryAt[c])
                   trailingSignals ==
                       computeTrailingSignals(trailing, parsed[c].currentNav, now)
                   scores == ScoresOf(parsed[c], trailingSignals, marketCtx[c])
               IN  /\ snapshot' = [snapshot EXCEPT ![c] =
                          SnapshotOf(parsed[c], scores, marketCtx[c], now)]
                   /\ obs' = [obs EXCEPT
                          ![c].shortHistory = Some(Len(trailing) < 2),
                          ![c].fewOI = Some(Len(SelectSeq(trailing, HasOI)) < 2)]
                   /\ pc' = [pc EXCEPT ![c] = "writing"]
                   /\ UNCHANGED <<raw, marketCtx, parsed, queryAt, inserted,
                                  gapQueue, gapFilled, resp>>
    /\ UNCHANGED <<env, store, now, started, fnVars>>

\* the INSERT of the live row runs (or throws: 500); at UTC hour 0 the
\* gap-fill pass starts, a throwing parseAllTimeframes being caught;
\* otherwise the response is sent
WriteSnapshot(c) ==
    /\ pc[c] = "writing"
    /\ \E throws \in StoreFaults(env) :
          IF throws
          THEN /\ store' = store
               /\ Finish(c, ServerError("store error"))
               /\ UNCHANGED obs
          ELSE /\ store' = InsertedRows(store, snapshot[c], now)
               /\ LET ins == InsertReturning(store, snapshot[c], now)
                      atHourZero == GetUTCHours(now) = 0
                      caught == atHourZero /\ ParseAllThrows(raw[c])
                      gaps == IF atHourZero /\ ~caught
                              THEN GapSnapshots(raw[c]) ELSE <<>>
                  IN  /\ obs' = [obs EXCEPT
                             ![c].hourHeld =
                                 Some(\E r \in store :
                                         HourOf(r.collected_at)
                                           = HourOf(Val(snapshot[c].collected_at))),
                             ![c].gapFailed = caught]
                      /\ IF gaps = <<>>
                         THEN Finish(c, Collected(ins, snapshot[c], 0))
                         ELSE /\ pc' = [pc EXCEPT ![c] = "gapfill"]
                              /\ inserted' = [inserted EXCEPT ![c] = ins]
                              /\ gapQueue' = [gapQueue EXCEPT ![c] = gaps]
                              /\ UNCHANGED <<raw, parsed, queryAt, resp, marketCtx,
                                             snapshot, gapFilled>>
    /\ UNCHANGED <<env, now, started, fnVars>>

\* the INSERT of the next gap snapshot runs; when it throws the pass ends
\* (catch (gapErr)); after the last one, or the failure, the response is sent
GapInsert(c) ==
    /\ pc[c] = "gapfill"
    /\ \E throws \in StoreFaults(env) :
          IF throws
          THEN /\ store' = store
               /\ obs' = [obs EXCEPT ![c].gapFailed = TRUE]
               /\ Finish(c, GapCaught(inserted[c], snapshot[c], gapFilled[c]))
          ELSE LET gapSnapshot == Head(gapQueue[c])
                   gapInserted == InsertReturning(store, gapSnapshot, now)
                   filled == IF IsNull(gapInserted) THEN gapFilled[c]
                             ELSE gapFilled[c] + 1
               IN  /\ store' = InsertedRows(store, gapSnapshot, now)
                   /\ obs' = obs
                   /\ IF Tail(gapQueue[c]) = <<>>
                      THEN Finish(c, Collected(inserted[c], snapshot[c], filled))
                      ELSE /\ gapQueue' = [gapQueue EXCEPT ![c] = Tail(@)]
                           /\ gapFilled' = [gapFilled EXCEPT ![c] = filled]
                           /\ UNCHANGED <<pc, raw, parsed, queryAt, resp,
                                          marketCtx, snapshot, inserted>>
    /\ UNCHANGED <<env, now, started, fnVars>>

\* time passes
Tick ==
    /\ \E t \in Instants : t > now /\ now' = t
    /\ UNCHANGED <<env, store, started, pc, raw, marketCtx, parsed, queryAt,
                   snapshot, inserted, gapQueue, gapFilled, resp, obs, fnVars>>

FnIdle == fnIn = Null /\ fnOut = Null

Init == InitSys /\ FnIdle

Next ==
    \/ \E c \in Slots : Start(c)
    \/ \E c \in Slots : FetchDone(c)
    \/ \E c \in Slots : ReadTrailing(c)
    \/ \E c \in Slots : WriteSnapshot(c)
    \/ \E c \in Slots : GapInsert(c)
    \/ Tick

Spec == Init /\ [][Next]_vars

----------------------------------------------------------------------------
(* GET /snapshots (api/snapshots.js) and GET /latest (api/latest.js).  A   *)
(* request is handled in one step: fnIn holds the request, fnOut the       *)
(* response and whether a statement was sent to the store.                 *)

\* req.query.<name> || d
OrDefault(x, d) == IF IsNull(x) \/ Val(x) = "" THEN d ELSE Val(x)

BadRequest == [status |-> 400, error |-> "Invalid range. Use: 24h, 7d, 30d, 90d, 1y, all"]

\* const effectiveResolution = resolution === 'auto' ? ... : resolution
EffectiveResolution(range, resolution) ==
    IF resolution = "auto"
    THEN IF range = "24h" \/ range = "7d" THEN "hourly" ELSE "daily"
    ELSE resolution

SnapshotsResponse(snapshots, range, resolution) ==
    [status |-> 200,
     snapshots |-> snapshots,
     meta |-> [count |-> Len(snapshots),
               range |-> range,
               resolution |-> EffectiveResolution(range, resolution),
               oldest |-> IF snapshots = <<>> THEN Null
                          ELSE Some(snapshots[1].collected_at),
               newest |-> IF snapshots = <<>> THEN Null
                          ELSE Some(snapshots[Len(snapshots)].collected_at)]]

\* the handler of GET /snapshots: getDb, the range check, getSnapshots
SnapshotsHandler(e, rows, query, t, throws) ==
    LET range == OrDefault(query.range, "all")
        resolution == OrDefault(query.resolution, "auto")
    IN  IF GetDbThrows(e)
        THEN [response |-> ServerError("DATABASE_URL environment variable is not set"),
              queried |-> FALSE]
        ELSE IF range \notin ValidRanges
        THEN [response |-> BadRequest, queried |-> FALSE]
        ELSE IF throws
        THEN [response |-> ServerError("store error"), queried |-> TRUE]
        ELSE [response |-> SnapshotsResponse(getSnapshots(rows, range, resolution, t),
                                             range, resolution),
              queried |-> TRUE]

\* the handler of GET /latest: getDb, getLatestSnapshot and fetchVaultDetails
\* in parallel, parseVaultData
LatestHandler(e, rows, vault, throws) ==
    IF GetDbThrows(e)
    THEN [response |-> ServerError("DATABASE_URL environment variable is not set"),
          queried |-> FALSE]
    ELSE IF throws
    THEN [response |-> ServerError("store error"), queried |-> TRUE]
    ELSE IF ~vault.ok
    THEN [response |-> ServerError("Hyperliquid API error"), queried |-> TRUE]
    ELSE IF ParseThrows(vault.value)
    THEN [response |-> ServerError("No allTime portfolio data"), queried |-> TRUE]
    ELSE LET live == parseVaultData(vault.value)
             latest == getLatestSnapshot(rows)
         IN  [response |->
                 [status |-> 200,
                  snapshot |-> latest,
                  live |-> [nav |-> live.currentNav, pnl |-> live.currentPnl,
                            apr |-> live.apr, vlm |-> live.vlm, ath |-> live.ath,
                            drawdown |-> live.currentDrawdown,
                            maxDD |-> live.maxDD,
                            allowDeposits |-> live.allowDeposits],
                  history_available |-> ~IsNull(latest)],
              queried |-> TRUE]

\* req.query of the /snapshots requests
QueryRanges == {Null, Some("24h"), Some("7d"), Some("30d"),
                Some("90d"), Some("1y"), Some("all"), Some("2d")}
QueryResolutions == {Null, Some("auto"), Some("hourly"), Some("daily"),
                     Some("weekly")}
SnapshotQueries ==
    [path : {"/snapshots"}, range : QueryRanges, resolution : QueryResolutions]
\* the /snapshots requests sent while ingestion runs
ApiQueries ==
    {[path |-> "/snapshots", range |-> Null, resolution |-> Null],
     [path |-> "/snapshots", range |-> Some("24h"), resolution |-> Some("daily")],
     [path |-> "/snapshots", range |-> Some("2d"), resolution |-> Some("hourly")]}

SnapshotsOf(queries) ==
    /\ fnOut = Null
    /\ \E query \in queries, throws \in StoreFaults(env) :
          /\ fnIn' = Some(query)
          /\ fnOut' = Some(SnapshotsHandler(env, store, query, now, throws))
    /\ UNCHANGED sysVars
Snapshots == SnapshotsOf(SnapshotQueries)
ApiSnapshots == SnapshotsOf(ApiQueries)

Latest ==
    /\ fnOut = Null
    /\ \E vault \in VaultResultsOf(env), throws \in StoreFaults(env) :
          /\ fnIn' = Some([path |-> "/latest"])
          /\ fnOut' = Some(LatestHandler(env, store, vault, throws))
    /\ UNCHANGED sysVars

\* the response has been sent: the invocation is over
Deliver ==
    /\ fnOut # Null
    /\ fnIn' = Null
    /\ fnOut' = Null
    /\ UNCHANGED sysVars

\* one ingestion worker under any configuration, store errors and malformed
\* timeframes admitted
ServiceSlots == {"a"}
Ingest ==
    \/ \E c \in ServiceSlots : Start(c)
    \/ \E c \in ServiceSlots : FetchDone(c)
    \/ \E c \in ServiceSlots : ReadTrailing(c)
    \/ \E c \in ServiceSlots : WriteSnapshot(c)
    \/ \E c \in ServiceSlots : GapInsert(c)
InitService == env \in ServiceEnvironments /\ store = {} /\ IdleSys /\ FnIdle
NextService == Ingest \/ Tick
SpecService == InitService /\ [][NextService]_vars

\* the three endpoints together: one ingestion worker and the read requests
InitApi == Init
NextApi == Ingest \/ Tick \/ ApiSnapshots \/ Latest \/ Deliver
SpecApi == InitApi /\ [][NextApi]_vars

\* a stored row as insertSnapshot writes it
QueryRow(t, nav, ath, maxDD, allow, score) ==
    RowOf([collected_at |-> Some(t), nav |-> nav, pnl |-> Some(nav - 100),
           apr |-> Null, vlm |-> Null, allow_deposits |-> allow,
           nav_ath |-> ath, drawdown_pct |-> Rat(nav - ath, ath),
           max_drawdown |-> maxDD, composite_score |-> Some(score),
           dd_score |-> Some(score), tvl_score |-> Some(50),
           momentum_score |-> Some(50), vol_score |-> Some(50),
           apr_score |-> Some(90)], t)
\* rows 39 days, 20 days and 5 days before FirstInstant, four rows of the day
\* before (the first of them more than 24 hours back) and one of the day
QueryRowPool ==
    {QueryRow(MinPerDay, 90, 90, Zero, TRUE, 40),
     QueryRow(20 * MinPerDay + 100, 100, 100, Zero, TRUE, 41),
     QueryRow(35 * MinPerDay + 300, 100, 100, Zero, TRUE, 41),
     QueryRow(39 * MinPerDay + 5, 99, 100, Rat(-1, 100), TRUE, 45),
     QueryRow(39 * MinPerDay + 600, 100, 100, Rat(-1, 100), TRUE, 40),
     QueryRow(39 * MinPerDay + 660, 102, 102, Rat(-1, 100), TRUE, 41),
     QueryRow(39 * MinPerDay + 720, 98, 102, Rat(-4, 102), FALSE, 41),
     QueryRow(40 * MinPerDay + 5, 98, 102, Rat(-4, 102), TRUE, 60)}
QueryStores == SUBSET QueryRowPool

\* the read endpoints over a populated store
InitQuery == env \in ServiceEnvironments /\ store \in QueryStores /\ IdleSys /\ FnIdle
NextQuery == Snapshots \/ Latest \/ Deliver
SpecQuery == InitQuery /\ [][NextQuery]_vars

----------------------------------------------------------------------------
(* The pure functions, each applied to inputs drawn from a bounded set *)

\* the sequences over S of length at most n
SeqsUpTo(S, n) == UNION {[1..k -> S] : k \in 0..n}

\* a NAV series: point i at day i, its values among NavValues
NavValues == {0, 90, 95, 100, 110}
SeriesOf(values) == [i \in 1..Len(values) |-> Point(i * MinPerDay, values[i])]
NormInputs == SeqsUpTo(NavValues, MaxLen)
\* the payload carrying the series as its allTime and its month timeframe
PayloadOf(values) ==
    LET tfData == [accountValueHistory |-> SeriesOf(values),
                   pnlHistory |-> <<Point(MinPerDay, -5), Point(2 * MinPerDay, 5)>>]
    IN  [portfolio |-> [allTime |-> tfData, month |-> tfData],
         apr |-> Null, vlm |-> Null, allowDeposits |-> Null]

InitNorm == InitSys /\ fnIn \in NormInputs /\ fnOut = Null
Normalize ==
    /\ fnOut = Null
    /\ LET data == PayloadOf(fnIn)
           tfData == data.portfolio["allTime"]
       IN  fnOut' = Some([parsed |-> parseVaultData(data),
                          seeded |-> computeWithATH(NavHistoryOf(tfData),
                                                    tfData.pnlHistory),
                          gaps |-> GapSnapshots(data)])
    /\ UNCHANGED <<sysVars, fnIn>>
NextNorm == Normalize
SpecNorm == InitNorm /\ [][NextNorm]_vars

\* the analytics handed to computeSignalScores
DrawdownInputs == {Zero, Rat(-1, 2000), Rat(-1, 1000), Rat(-1, 100),
                   Rat(-5, 100), Rat(-9, 100), Rat(-1, 4)}
AprInputs == {Null, Some(0), Some(300), Some(1200), Some(2000), Some(4001)}
FundingInputs == {Null, Some(-200), Some(0), Some(50), Some(100), Some(501)}
PassedScores == {Null, Some(10), Some(50), Some(95)}
ScoreInputs ==
    [currentDrawdown : DrawdownInputs, apr : AprInputs,
     fundingRate : FundingInputs, tvlScore : PassedScores,
     momentumScore : PassedScores, volScore : PassedScores,
     oiScore : {Null, Some(15), Some(50), Some(90)}]

InitScores == InitSys /\ fnIn \in ScoreInputs /\ fnOut = Null
Score ==
    /\ fnOut = Null
    /\ fnOut' = Some(computeSignalScores(fnIn))
    /\ UNCHANGED <<sysVars, fnIn>>
NextScores == Score
SpecScores == InitScores /\ [][NextScores]_vars

\* the history handed to computeTrailingSignals at instant FirstInstant: row
\* i of n was collected 3 * (n - i + 1) days before
RowKinds == {[nav |-> 100, open_interest |-> Null],
             [nav |-> 100, open_interest |-> Some(1000)],
             [nav |-> 200, open_interest |-> Some(1200)],
             [nav |-> 0, open_interest |-> Some(0)]}
HistoryOf(kinds) ==
    [i \in 1..Len(kinds) |->
        [collected_at |-> FirstInstant - 3 * (Len(kinds) - i + 1) * MinPerDay,
         nav |-> kinds[i].nav,
         open_interest |-> kinds[i].open_interest]]
CurrentNavs == {94, 95, 96, 97, 98, 99, 100, 101, 102, 103, 104}
TrailingInputs ==
    [snapshots : {HistoryOf(k) : k \in SeqsUpTo(RowKinds, MaxLen)},
     currentNav : CurrentNavs]

InitTrailing == InitSys /\ fnIn \in TrailingInputs /\ fnOut = Null
Trail ==
    /\ fnOut = Null
    /\ fnOut' = Some(computeTrailingSignals(fnIn.snapshots, fnIn.currentNav,
                                            FirstInstant))
    /\ UNCHANGED <<sysVars, fnIn>>
NextTrailing == Trail
SpecTrailing == InitTrailing /\ [][NextTrailing]_vars

----------------------------------------------------------------------------
(* Properties *)

\* a row of rows lies in the UTC hour of instant at
HourHeld(rows, at) == \E r \in rows : r.collected_at \div 60 = at \div 60
\* the instant of the snapshot a 200 response carries
RespTime(r) ==
    IF r.skipped THEN Val(r.snapshot.collected_at) ELSE r.snapshot.collected_at
Collects(c) == pc[c] = "done" /\ resp[c].status = 200

UniqueHours ==
    \A r, q \in store :
        r.collected_at \div 60 = q.collected_at \div 60 => r = q
\* a step in which slot c's live INSERT, or its next gap INSERT, runs
LiveWriteBy(c) == pc[c] = "writing" /\ pc'[c] # "writing"
GapWriteBy(c) ==
    pc[c] = "gapfill" /\ (pc'[c] # "gapfill" \/ gapQueue'[c] # gapQueue[c])
ConflictingWriteIsNoop ==
    \A c \in Slots :
        /\ LiveWriteBy(c) /\ HourHeld(store, Val(snapshot[c].collected_at))
           => /\ store' = store
              /\ IF pc'[c] = "done"
                 THEN resp'[c].status = 200 /\ resp'[c].skipped
                 ELSE inserted'[c] = Null
        /\ GapWriteBy(c) /\ HourHeld(store, Val(Head(gapQueue[c]).collected_at))
           => /\ store' = store
              /\ IF pc'[c] = "done"
                 THEN resp'[c].status = 200 /\ resp'[c].gapFilled = gapFilled[c]
                 ELSE gapFilled'[c] = gapFilled[c]

\* C1: whatever the sequence and interleaving of live and gap-fill writes, the
\* store holds at most one row per UTC hour; a write into an hour that already
\* has a row inserts nothing, leaves the store as it was and returns null
\* without raising an error.
C1_OneSnapshotPerHour == []UniqueHours /\ [][ConflictingWriteIsNoop]_vars
\* a live write was skipped, and a gap-fill pass skipped one of its three writes
C1_SkippedWrites ==
    /\ \E c \in Slots : Collects(c) /\ resp[c].skipped
    /\ \E c \in Slots : Collects(c) /\ resp[c].gapFilled = 2

\* two finished invocations that were in flight together and wrote a snapshot
\* of the same UTC hour
Raced(c, d) ==
    /\ c # d
    /\ Collects(c) /\ Collects(d)
    /\ d \in obs[c].peers /\ c \in obs[d].peers
    /\ RespTime(resp[c]) \div 60 = RespTime(resp[d]) \div 60

\* C2 as stated: of two concurrent cycles writing the same UTC hour exactly
\* one inserts the row, the other responds 200, success and skipped.
C2_ExactlyOneInserts ==
    \A c, d \in Slots :
        Raced(c, d) =>
            /\ resp[c].success /\ resp[d].success
            /\ resp[c].skipped # resp[d].skipped
\* C2 as amended: of two concurrent cycles writing the same UTC hour at most
\* one inserts the row, and exactly one does when the hour held no row before
\* the first of the two writes; a cycle that does not insert responds 200 with
\* success: true and skipped: true, one that inserts with skipped: false.
C2_AtMostOneInserts ==
    \A c, d \in Slots :
        Raced(c, d) =>
            /\ resp[c].success /\ resp[d].success
            /\ ~(~resp[c].skipped /\ ~resp[d].skipped)
            /\ resp[c].skipped = Val(obs[c].hourHeld)
            /\ (~Val(obs[c].hourHeld) \/ ~Val(obs[d].hourHeld)
                => resp[c].skipped # resp[d].skipped)
\* two cycles raced for a free hour: one inserted, the other was skipped
C2_RaceWonAndLost ==
    \E c, d \in Slots :
        Raced(c, d) /\ ~resp[c].skipped /\ resp[d].skipped
        /\ ~Val(obs[c].hourHeld)

\* the greatest and the least of a non-empty set
MaxOf(S) == CHOOSE m \in S : \A x \in S : x <= m
MinRatOf(S) == CHOOSE m \in S : \A x \in S : m.n * x.d <= x.n * m.d

\* C3: in every store state, along the rows in ascending collected_at order,
\* nav_ath[i] = max(nav[0..i]) and max_drawdown[i] = min(drawdown_pct[0..i]).
C3_StoredRunningExtremes ==
    LET rows == OrderAsc(store)
    IN  \A i \in 1..Len(rows) :
            /\ rows[i].nav_ath = MaxOf({rows[j].nav : j \in 1..i})
            /\ rows[i].max_drawdown
                   = MinRatOf({rows[j].drawdown_pct : j \in 1..i})

\* the positive values of the input series, and the running extremes of a
\* prefix of them
PositiveValues(values) == SelectSeq(values, LAMBDA v : v > 0)
PrefixMax(nav, i) == MaxOf({nav[j] : j \in 1..i})
DrawdownAt(nav, i) == Rat(nav[i] - PrefixMax(nav, i), PrefixMax(nav, i))
PrefixMinDD(nav, i) == MinRatOf({DrawdownAt(nav, j) : j \in 1..i})

\* C4: for every chronological series of positive NAV values the one-pass
\* normalizer (parseVaultData, the loop of computeWithATH, the gap-fill loop)
\* yields ath[i] = max(nav[0..i]), drawdown[i] = (nav[i] - ath[i]) / ath[i] <= 0
\* and maxDD = the least drawdown; NAV [100,110,90,95] gives ATH
\* [100,110,110,110] and maxDD = -20/110, the drawdown of the third point.
C4_OnePassExtremes ==
    fnOut # Null =>
        LET nav == PositiveValues(fnIn)
            n == Len(nav)
            out == Val(fnOut)
        IN  /\ Len(out.parsed.drawdownHistory) = n
            /\ Len(out.seeded) = n
            /\ Len(out.gaps) = n
            /\ \A i \in 1..n :
                  /\ out.parsed.drawdownHistory[i].value = DrawdownAt(nav, i)
                  /\ DrawdownAt(nav, i).n <= 0
                  /\ out.seeded[i].ath = PrefixMax(nav, i)
                  /\ out.seeded[i].dd = DrawdownAt(nav, i)
                  /\ out.seeded[i].maxDD = PrefixMinDD(nav, i)
                  /\ out.gaps[i].nav_ath = PrefixMax(nav, i)
                  /\ out.gaps[i].drawdown_pct = DrawdownAt(nav, i)
                  /\ out.gaps[i].max_drawdown = PrefixMinDD(nav, i)
            /\ n > 0 => /\ out.parsed.ath = PrefixMax(nav, n)
                        /\ out.parsed.maxDD = PrefixMinDD(nav, n)
            /\ fnIn = <<100, 110, 90, 95>> =>
                  /\ [i \in 1..4 |-> out.seeded[i].ath] = <<100, 110, 110, 110>>
                  /\ out.parsed.maxDD = [n |-> -2, d |-> 11]
                  /\ out.parsed.maxDD = out.parsed.drawdownHistory[3].value
\* the example series has been normalized
C4_ExampleNormalized ==
    fnOut # Null /\ fnIn = <<100, 110, 90, 95>> /\ Val(fnOut).parsed.ath = 110

\* C5: every stored row with a composite_score holds the seven sub-scores it
\* was computed from, and composite_score = round(0.25 dd + 0.15 tvl + 0.15
\* momentum + 0.15 vol + 0.05 apr + 0.15 funding + 0.10 oi) of those.
C5_StoredCompositeRecomputes ==
    \A r \in store :
        r.composite_score # Null =>
            /\ \A column \in {"dd_score", "tvl_score", "momentum_score",
                              "vol_score", "apr_score", "funding_score",
                              "oi_score"} : r[column] # Null
            /\ LET sum == 25 * Val(r.dd_score) + 15 * Val(r.tvl_score)
                          + 15 * Val(r.momentum_score) + 15 * Val(r.vol_score)
                          + 5 * Val(r.apr_score) + 15 * Val(r.funding_score)
                          + 10 * Val(r.oi_score)
               IN  /\ 100 * Val(r.composite_score) - 50 <= sum
                   /\ sum < 100 * Val(r.composite_score) + 50

\* the weighted sum of the sub-scores a result carries, in hundredths
SumOfScores(s) ==
    25 * s.ddScore + 15 * s.tvlScore + 15 * s.momentumScore + 15 * s.volScore
    + 5 * s.aprScore + 15 * s.fundingScore + 10 * s.oiScore

\* C6: computeSignalScores returns composite = round(0.25 dd + 0.15 tvl + 0.15
\* momentum + 0.15 vol + 0.05 apr + 0.15 funding + 0.10 oi), the nearest
\* integer with a half rounded up, within 0..100; the weights sum to 1; dd = 5
\* with the six other sub-scores at 50 gives 39.
C6_CompositeIsRoundedWeightedSum ==
    /\ fnOut # Null =>
          LET s == Val(fnOut)
          IN  /\ s.composite \in 0..100
              /\ 100 * s.composite - 50 <= SumOfScores(s)
              /\ SumOfScores(s) < 100 * s.composite + 50
              /\ \A k \in {"ddScore", "tvlScore", "momentumScore", "volScore",
                           "aprScore", "fundingScore", "oiScore"} :
                     s[k] \in 0..100
    /\ WeightDd + WeightTvl + WeightMomentum + WeightVol + WeightApr
       + WeightFunding + WeightOi = 100
    /\ MathRound(WeightedSum(5, 50, 50, 50, 50, 50, 50), 100) = 39
\* a result whose weighted sum lies exactly half way between two integers
C6_HalfRoundedUp ==
    fnOut # Null /\ SumOfScores(Val(fnOut)) % 100 = 50
    /\ Val(fnOut).ddScore = 5 /\ Val(fnOut).tvlScore = 50

\* C7: with fewer than two history rows computeTrailingSignals returns exactly
\* {tvlScore: 50, momentumScore: 50, volScore: 50, oiScore: 50}.
C7_NeutralDefaults ==
    fnOut # Null /\ Len(fnIn.snapshots) < 2 =>
        Val(fnOut) = [tvlScore |-> 50, momentumScore |-> 50, volScore |-> 50,
                      oiScore |-> 50]

\* C8: in a cycle whose snapshot is built, each sub-score whose component
\* lacked data is 50: tvl, momentum and vol with fewer than two trailing rows,
\* oi with fewer than two rows carrying open interest, apr with no apr in the
\* payload, funding with a failed market-context fetch.
C8_NeutralWhenNoData ==
    \A c \in Slots :
        pc[c] \in {"writing", "gapfill"} =>
            /\ Val(obs[c].shortHistory) =>
                  /\ snapshot[c].tvl_score = Some(50)
                  /\ snapshot[c].momentum_score = Some(50)
                  /\ snapshot[c].vol_score = Some(50)
            /\ Val(obs[c].fewOI) => snapshot[c].oi_score = Some(50)
            /\ raw[c].apr = Null => snapshot[c].apr_score = Some(50)
            /\ obs[c].marketFailed => snapshot[c].funding_score = Some(50)

\* the score of the first threshold of {3, 1, 0, -1, -3, -5} that tvl7
\* strictly exceeds, 95 when it exceeds none
TvlThresholds == <<3, 1, 0, -1, -3, -5>>
TvlTierScores == <<10, 25, 40, 55, 70, 85>>
FirstExceeded(tvl7) ==
    LET hit == {i \in 1..6 : tvl7.n > TvlThresholds[i] * tvl7.d}
    IN  IF hit = {} THEN 95
        ELSE TvlTierScores[CHOOSE i \in hit : \A j \in hit : i <= j]

\* C9: the TVL score is that of the first threshold of {3,1,0,-1,-3,-5} percent
\* that tvl7 strictly exceeds (10,25,40,55,70,85) and 95 otherwise: tvl7 above
\* 3 gives 10, exactly 3 gives 25, tvl7 <= -5 gives 95.
C9_TvlStrictBuckets ==
    fnOut # Null /\ Len(fnIn.snapshots) >= 2 =>
        LET tvl7 == Tvl7(fnIn.snapshots, fnIn.currentNav, FirstInstant)
            score == Val(fnOut).tvlScore
        IN  /\ score = FirstExceeded(tvl7)
            /\ tvl7.n > 3 * tvl7.d => score = 10
            /\ tvl7 = [n |-> 3, d |-> 1] => score = 25
            /\ tvl7.n <= -5 * tvl7.d => score = 95
\* a change of exactly 3 percent was scored 25
C9_ExactlyThreePercent ==
    /\ fnOut # Null /\ Len(fnIn.snapshots) >= 2
    /\ Tvl7(fnIn.snapshots, fnIn.currentNav, FirstInstant) = [n |-> 3, d |-> 1]
    /\ Val(fnOut).tvlScore = 25

\* the market fetch of slot c failed and its vault fetch succeeded
MarketOnlyFailed(c) == obs[c].marketFailed /\ obs[c].vault # "failed"
ZeroCtx == [fundingRate |-> 0, openInterest |-> 0, volume24h |-> 0]

CauseOf(outcome) ==
    IF outcome = "failed" THEN "Hyperliquid API error"
    ELSE "No allTime portfolio data"
VaultFatal(o) == o.vault = "failed" \/ o.vault = "noAllTime"
\* the step in which slot c learns that its vault fetch or its payload is bad
VaultFails(c) == ~VaultFatal(obs[c]) /\ VaultFatal(obs'[c])
FatalCycleStep ==
    \A c \in Slots :
        VaultFails(c) =>
            /\ pc[c] = "fetching" /\ pc'[c] = "done"
            /\ store' = store
            /\ resp'[c] = [status |-> 500, error |-> CauseOf(obs'[c].vault)]
FatalCycleEnded ==
    \A c \in Slots :
        VaultFatal(obs[c]) =>
            /\ pc[c] = "done"
            /\ resp[c] = [status |-> 500, error |-> CauseOf(obs[c].vault)]
            /\ obs[c].hourHeld = Null
            /\ snapshot[c] = Null /\ gapQueue[c] = <<>>

\* C11: when the vault-state fetch fails, or the payload has no allTime
\* timeframe, the cycle ends with 500 carrying the cause message, attempts no
\* snapshot write and no gap-fill write, and leaves the store unchanged.
C11_VaultFailureIsFatal == []FatalCycleEnded /\ [][FatalCycleStep]_vars
\* both kinds of fatal cycle have ended while the store held rows
C11_FatalCyclesSeen ==
    /\ store # {}
    /\ \E c, d \in Slots :
          /\ pc[c] = "done" /\ obs[c].vault = "failed" /\ resp[c].status = 500
          /\ pc[d] = "done" /\ obs[d].vault = "noAllTime" /\ resp[d].status = 500

\* a /snapshots request has been answered; its range and resolution
SnapshotsAnswered == fnOut # Null /\ Val(fnIn).path = "/snapshots"
RequestedRange == OrDefault(Val(fnIn).range, "all")
RequestedResolution == OrDefault(Val(fnIn).resolution, "auto")

\* C12: a GET /snapshots request whose range is not one of 24h, 7d, 30d, 90d,
\* 1y, all is answered 400 without any store access, whatever the store and
\* its configuration.
C12_InvalidRangeRejected ==
    SnapshotsAnswered
    /\ RequestedRange \notin {"24h", "7d", "30d", "90d", "1y", "all"} =>
        /\ Val(fnOut).response.status = 400
        /\ ~Val(fnOut).queried

\* the header of the request matches the configured secret
BearerMatches(o) == o.header = env.CRON_SECRET
\* a step in which the ingestion worker c takes up a request
Arrives(c) == started' # started /\ pc'[c] # pc[c]
AuthStep ==
    \A c \in ServiceSlots :
        Arrives(c) =>
            IF env.CRON_SECRET # Null /\ ~BearerMatches(obs'[c])
            THEN /\ resp'[c] = [status |-> 401, error |-> "Unauthorized"]
                 /\ pc'[c] = "done"
                 /\ store' = store
                 /\ raw'[c] = Null /\ marketCtx'[c] = Null
                 /\ queryAt'[c] = Null /\ snapshot'[c] = Null
            ELSE /\ resp'[c].status # 401
                 /\ env.DATABASE_URL # Null => pc'[c] = "fetching"
\* a rejected request fetched nothing, read nothing and wrote nothing
RejectedDidNothing ==
    \A c \in ServiceSlots :
        resp[c].status = 401 =>
            /\ pc[c] = "done"
            /\ env.CRON_SECRET # Null /\ ~BearerMatches(obs[c])
            /\ obs[c].vault = "none" /\ ~obs[c].marketFailed
            /\ obs[c].shortHistory = Null /\ obs[c].hourHeld = Null

\* C13: with a secret configured and an Authorization header other than
\* 'Bearer <secret>', POST /collect answers 401 before any work: no provider
\* fetch, no store read, no store write, the store unchanged; with no secret
\* configured the request proceeds whatever the header.
C13_UnauthorizedBeforeWork == []RejectedDidNothing /\ [][AuthStep]_vars
\* a request with a wrong token was rejected while the store held rows
C13_WrongTokenRejected ==
    \E c \in ServiceSlots :
        /\ resp[c].status = 401 /\ obs[c].header = Some("x")
        /\ store # {}
\* a request with a wrong token went ahead where no secret is configured
C13_OpenEndpointProceeds ==
    \E c \in ServiceSlots :
        /\ env.CRON_SECRET = Null /\ obs[c].header = Some("x")
        /\ pc[c] = "done" /\ resp[c].status = 200

\* the valid ranges from the shortest to the longest
RangeOrder == <<"24h", "7d", "30d", "90d", "1y", "all">>
RankOf(range) == CHOOSE i \in 1..6 : RangeOrder[i] = range
LongerRanges(range) == {RangeOrder[i] : i \in (RankOf(range) + 1)..6}
Answered200 == SnapshotsAnswered /\ Val(fnOut).response.status = 200
ReturnedRows == Val(fnOut).response.snapshots
KeysOf(rowSeq) == {rowSeq[i].collected_at : i \in 1..Len(rowSeq)}
RowSetOf(rowSeq) == {rowSeq[i] : i \in 1..Len(rowSeq)}
IsDaily == EffectiveResolution(RequestedRange, RequestedResolution) = "daily"

\* C14 as stated: for a fixed resolution, store and instant the rows
\* getSnapshots returns for a range are at most as many as for every longer
\* range (all >= 30d >= 7d >= 24h), the rows (or days) of the shorter range
\* being among those of the longer.
C14_RangeMonotone ==
    Answered200 =>
        \A longer \in LongerRanges(RequestedRange) :
            LET more == getSnapshots(store, longer, RequestedResolution, now)
            IN  /\ Len(ReturnedRows) <= Len(more)
                /\ KeysOf(ReturnedRows) \subseteq KeysOf(more)
\* C14 as amended: for a fixed resolution other than auto, store and instant
\* the rows getSnapshots returns for a range are at most as many as for every
\* longer range, the rows (the days, under daily resolution) of the shorter
\* range being among those of the longer; under auto this holds between two
\* ranges that resolve alike (24h and 7d to hourly; 30d, 90d, 1y and all to
\* daily).
C14_RangeMonotoneAtOneResolution ==
    Answered200 =>
        \A longer \in LongerRanges(RequestedRange) :
            EffectiveResolution(longer, RequestedResolution)
              = EffectiveResolution(RequestedRange, RequestedResolution) =>
                LET more == getSnapshots(store, longer, RequestedResolution, now)
                IN  /\ Len(ReturnedRows) <= Len(more)
                    /\ KeysOf(ReturnedRows) \subseteq KeysOf(more)
                    /\ ~IsDaily /\ longer # "all" =>
                           RowSetOf(ReturnedRows) \subseteq RowSetOf(more)
                    /\ ~IsDaily /\ longer = "all" =>
                           RowSetOf(ReturnedRows) \subseteq store
\* a store spanning more than seven days: 7d returns more rows than 24h and
\* fewer than 30d
C14_SevenDaysBetween ==
    /\ Answered200 /\ RequestedRange = "7d" /\ RequestedResolution = "hourly"
    /\ Len(getSnapshots(store, "24h", "hourly", now)) < Len(ReturnedRows)
    /\ Len(ReturnedRows) < Len(getSnapshots(store, "30d", "hourly", now))

\* the days a range reaches back, and the stored rows a request for it covers
DaysBack(range) ==
    CASE range = "24h" -> 1 [] range = "7d" -> 7 [] range = "30d" -> 30
      [] range = "90d" -> 90 [] range = "1y" -> 365
CoveredRows ==
    IF RequestedRange = "all" THEN store
    ELSE {r \in store : r.collected_at >= now - DaysBack(RequestedRange) * 1440}
RowsOfDay(day) == {r \in CoveredRows : r.collected_at \div 1440 = day}
RECURSIVE SumOver(_, _)
SumOver(rows, column) ==
    IF rows = {} THEN 0
    ELSE LET r == CHOOSE x \in rows : TRUE
         IN  r[column] + SumOver(rows \ {r}, column)

\* C15: with daily resolution getSnapshots returns exactly one row per UTC
\* day that has a stored row at or after the cutoff, in ascending order, its
\* nav the mean of the day's nav values, nav_ath the greatest nav_ath,
\* max_drawdown the least max_drawdown and allow_deposits the conjunction of
\* the day's flags; hourly NAVs 100, 102, 98 give daily nav 100.
C15_DailyAggregates ==
    Answered200 /\ IsDaily =>
        LET out == ReturnedRows
        IN  /\ Len(out) = Cardinality({r.collected_at \div 1440 : r \in CoveredRows})
            /\ \A i \in 1..Len(out) :
                  LET day == out[i].collected_at \div 1440
                      group == RowsOfDay(day)
                  IN  /\ out[i].collected_at = day * 1440
                      /\ group # {}
                      /\ i > 1 => out[i - 1].collected_at < out[i].collected_at
                      /\ out[i].nav.n * Cardinality(group)
                           = SumOver(group, "nav") * out[i].nav.d
                      /\ out[i].nav_ath = MaxOf({r.nav_ath : r \in group})
                      /\ out[i].max_drawdown
                           = MinRatOf({r.max_drawdown : r \in group})
                      /\ out[i].allow_deposits = (\A r \in group : r.allow_deposits)
                      /\ {r.nav : r \in group} = {100, 102, 98}
                         /\ Cardinality(group) = 3 => out[i].nav = [n |-> 100, d |-> 1]
\* a daily row was built from the three rows with NAV 100, 102 and 98
C15_ThreeRowDay ==
    /\ Answered200 /\ IsDaily /\ Len(ReturnedRows) >= 2
    /\ \E i \in 1..Len(ReturnedRows) :
          LET group == RowsOfDay(ReturnedRows[i].collected_at \div 1440)
          IN  /\ {r.nav : r \in group} = {100, 102, 98} /\ Cardinality(group) = 3
              /\ ReturnedRows[i].nav = [n |-> 100, d |-> 1]
              /\ ReturnedRows[i].nav_ath = 102
              /\ ~ReturnedRows[i].allow_deposits

\* C16: auto resolves to hourly for 24h and 7d and to daily for every other
\* valid range, and the resolution reported in the meta of a /snapshots
\* response is the one getSnapshots applied to produce the returned rows:
\* hourly means the covered rows themselves, daily their per-day aggregates.
C16_ReportedResolutionApplied ==
    Answered200 =>
        LET reported == Val(fnOut).response.meta.resolution
        IN  /\ RequestedResolution = "auto" =>
                  reported = (IF RequestedRange \in {"24h", "7d"} THEN "hourly"
                              ELSE "daily")
            /\ reported \in {"hourly", "daily"}
            /\ reported = "hourly" => RowSetOf(ReturnedRows) = CoveredRows
            /\ reported = "daily" =>
                  KeysOf(ReturnedRows)
                    = {(r.collected_at \div 1440) * 1440 : r \in CoveredRows}

\* slot c is running a gap-fill pass, or has ended a cycle whose pass inserted
\* rows; the UTC day of that cycle
GapPassOf(c) ==
    \/ pc[c] = "gapfill"
    \/ Collects(c) /\ resp[c].gapFilled > 0
PassDay(c) ==
    IF pc[c] = "gapfill" THEN Val(snapshot[c].collected_at) \div 1440
    ELSE RespTime(resp[c]) \div 1440

\* C17: the gap-fill pass runs only in a cycle that observes UTC hour 0, only
\* after that cycle's live write was attempted, and at most once over the
\* cycles of one UTC day.
C17_GapFillOncePerDay ==
    \A c, d \in Slots :
        /\ GapPassOf(c) => obs[c].hourHeld # Null
        /\ GapPassOf(c) /\ GapPassOf(d) /\ PassDay(c) = PassDay(d) => c = d

\* the step in which a failure inside the gap-fill pass of worker c is caught
GapFailureCaught(c) == ~obs[c].gapFailed /\ obs'[c].gapFailed
\* what the worker reports for gapFilled after the step
FilledAfter(c) == IF pc'[c] = "done" THEN resp'[c].gapFilled ELSE gapFilled'[c]
GapFailureStep ==
    \A c \in ServiceSlots :
        /\ GapFailureCaught(c) =>
              /\ pc'[c] = "done"
              /\ resp'[c].status = 200 /\ resp'[c].success
              /\ store \subseteq store'
              /\ pc[c] = "gapfill" =>
                    /\ store' = store
                    /\ resp'[c].gapFilled = gapFilled[c]
                    /\ resp'[c].skipped = IsNull(inserted[c])
                    /\ resp'[c].snapshot = (IF IsNull(inserted[c]) THEN snapshot[c]
                                            ELSE Val(inserted[c]))
              /\ pc[c] = "writing" =>
                    /\ resp'[c].gapFilled = 0
                    /\ resp'[c].skipped
                         = HourHeld(store, Val(snapshot[c].collected_at))
        /\ pc[c] = "gapfill" =>
              FilledAfter(c) - gapFilled[c] = Cardinality(store' \ store)
GapFailureReported ==
    \A c \in ServiceSlots :
        obs[c].gapFailed =>
            /\ pc[c] = "done"
            /\ resp[c].status = 200 /\ resp[c].success
            /\ resp[c].skipped = Val(obs[c].hourHeld)

\* C18: a failure inside the gap-fill pass (parseAllTimeframes or a gap-fill
\* insert) is caught: the cycle still answers 200 with success: true and the
\* snapshot and skipped values of its live write, gapFilled counts the gap
\* rows inserted before the failure, and those rows stay stored.
C18_GapFailureIsCaught == []GapFailureReported /\ [][GapFailureStep]_vars
\* a gap-fill insert failed after an earlier one of the pass had inserted a row
C18_FailedAfterFirstGapRow ==
    \E c \in ServiceSlots :
        /\ obs[c].gapFailed /\ pc[c] = "done" /\ resp[c].gapFilled = 1
        /\ Cardinality(store) = 2
\* a cycle whose gap-fill pass failed before it inserted a gap row
C18_FailedAtTimeframes ==
    \E c \in ServiceSlots :
        /\ obs[c].gapFailed /\ pc[c] = "done" /\ resp[c].gapFilled = 0
        /\ ~resp[c].skipped /\ Cardinality(store) = 1

\* every stored row is stored unchanged after the step, so the populated
\* hours only grow; a read request leaves the store as it is
RowsKept == \A r \in store : r \in store'
HoursKept ==
    {r.collected_at \div 60 : r \in store}
      \subseteq {r.collected_at \div 60 : r \in store'}
ReadAnswered == fnOut = Null /\ fnOut' # Null
StoreStep ==
    /\ RowsKept /\ HoursKept
    /\ Cardinality(store') = Cardinality({r.collected_at \div 60 : r \in store'})
    /\ ReadAnswered => store' = store

\* C19: under any sequence of /collect cycles (gap-fill included), /latest
\* and /snapshots requests a stored snapshot is never deleted or modified:
\* once a row exists for a UTC hour all its fields keep their value, and the
\* set of populated hours only grows.
C19_StoredRowsImmutable == [][StoreStep]_vars
\* a /latest request is answered from a store that took live and gap rows and
\* for which a later write into a populated hour was skipped
C19_ReadAfterSkippedWrite ==
    /\ fnOut # Null /\ Val(fnIn).path = "/latest"
    /\ Val(fnOut).response.status = 200
    /\ Val(fnOut).response.snapshot # Null
    /\ Cardinality(store) >= 3
    /\ \E c \in ServiceSlots : Collects(c) /\ resp[c].skipped

\* the timestamp of the first retained (positive) NAV point of the input, and
\* the allTime PnL points of the payload built from it
FirstRetainedTime ==
    LET kept == {i \in 1..Len(fnIn) : fnIn[i] > 0}
    IN  SeriesOf(fnIn)[CHOOSE i \in kept : \A j \in kept : i <= j].time
OfferedPnl == PayloadOf(fnIn).portfolio["allTime"].pnlHistory
AtOrAfterFirst(point) == point.time >= FirstRetainedTime

\* C20: the PnL history of parseVaultData holds exactly the allTime PnL points
\* at or after the timestamp of the first retained NAV point (a PnL point with
\* that very timestamp is kept), and currentPnl is the last of them.
C20_PnlFromFirstRetained ==
    fnOut # Null /\ PositiveValues(fnIn) # <<>> =>
        LET expected == SelectSeq(OfferedPnl, AtOrAfterFirst)
        IN  /\ Val(fnOut).parsed.pnlHistory = expected
            /\ expected # <<>> =>
                  Val(fnOut).parsed.currentPnl = expected[Len(expected)].value

----------------------------------------------------------------------------
(* The writes of one gap-fill pass *)

\* the points the pass of worker c replays for a timeframe: the positive NAV
\* points of the payload and its PnL points
ReplayOf(c, tf) ==
    IF tf \in DOMAIN raw[c].portfolio
    THEN [navHistory |-> SelectSeq(raw[c].portfolio[tf].accountValueHistory,
                                   LAMBDA p : p.value > 0),
          pnlHistory |-> raw[c].portfolio[tf].pnlHistory]
    ELSE [navHistory |-> <<>>, pnlHistory |-> <<>>]
PassPoints(c) == ReplayOf(c, "month").navHistory \o ReplayOf(c, "week").navHistory
\* the writes of the pass that have completed, and the timeframe and the
\* index in it of the point written next
WritesDone(c) == Len(PassPoints(c)) - Len(gapQueue[c])
NextTimeframe(c) ==
    IF WritesDone(c) < Len(ReplayOf(c, "month").navHistory) THEN "month" ELSE "week"
NextIndex(c) ==
    IF NextTimeframe(c) = "month" THEN WritesDone(c) + 1
    ELSE WritesDone(c) + 1 - Len(ReplayOf(c, "month").navHistory)
ValuesOf(points) == [j \in 1..Len(points) |-> points[j].value]
\* the values of the PnL points of a timestamp
PnlAt(pnlHistory, time) ==
    {pnlHistory[j].value : j \in {k \in 1..Len(pnlHistory) : pnlHistory[k].time = time}}

\* the step in which worker c issues the INSERT of its next gap point
GapWriteStep(c) ==
    pc[c] = "gapfill" /\ gapQueue'[c] # gapQueue[c] /\ ~obs'[c].gapFailed
\* the INSERT is the one of the next point and is complete when the step
\* ends: the pass has one write more behind it, or is over; no other row
\* than that of the point enters the store
OneAtATime(c) ==
    /\ gapQueue[c] # <<>>
    /\ Val(Head(gapQueue[c]).collected_at) = PassPoints(c)[WritesDone(c) + 1].time
    /\ \/ pc'[c] = "done" /\ Len(gapQueue[c]) = 1
       \/ pc'[c] = "gapfill" /\ raw'[c] = raw[c]
            /\ gapQueue'[c] = Tail(gapQueue[c])
    /\ Cardinality(store' \ store) <= 1
    /\ \A r \in store' \ store :
          r.collected_at = PassPoints(c)[WritesDone(c) + 1].time
\* the row written holds the running extremes of its timeframe's replay up
\* to its point, the PnL of its timestamp or null, and no apr
WrittenValues(c) ==
    LET replay == ReplayOf(c, NextTimeframe(c))
        i == NextIndex(c)
        nav == ValuesOf(replay.navHistory)
        time == replay.navHistory[i].time
    IN  \A r \in store' \ store :
            /\ r.collected_at = time
            /\ r.nav = nav[i]
            /\ r.nav_ath = PrefixMax(nav, i)
            /\ r.drawdown_pct = DrawdownAt(nav, i)
            /\ r.max_drawdown = PrefixMinDD(nav, i)
            /\ r.apr = Null
            /\ IF PnlAt(replay.pnlHistory, time) = {} THEN r.pnl = Null
               ELSE r.pnl # Null /\ Val(r.pnl) \in PnlAt(replay.pnlHistory, time)
\* the point written is later than every point the pass wrote before it
\* from the same timeframe; than every point the pass wrote before it
LaterInTimeframe(c) ==
    LET replay == ReplayOf(c, NextTimeframe(c))
    IN  \A j \in 1..(NextIndex(c) - 1) :
            replay.navHistory[j].time < replay.navHistory[NextIndex(c)].time
LaterInPass(c) ==
    \A j \in 1..WritesDone(c) :
        PassPoints(c)[j].time < PassPoints(c)[WritesDone(c) + 1].time

\* C21 as stated: within one gap-fill pass the writes are issued one at a
\* time and in chronological order of the points written, each written row
\* holding the running max, (nav - ath)/ath and the running min over the
\* points of its timeframe replay up to it, the PnL of the identical timestamp
\* or null, and a null apr.
C21_PassWritesChronological ==
    [][\A c \in Slots :
          GapWriteStep(c) => OneAtATime(c) /\ WrittenValues(c) /\ LaterInPass(c)]_vars
\* C21: within one gap-fill pass the writes are issued one at a time, the
\* month replay before the week replay and each replay in chronological order
\* of its points, each written row holding the running max, (nav - ath)/ath
\* and the running min over the points of its timeframe replay up to it, the
\* PnL of the identical timestamp or null, and a null apr.
C21_ReplayWritesChronological ==
    [][\A c \in Slots :
          GapWriteStep(c) =>
              OneAtATime(c) /\ WrittenValues(c) /\ LaterInTimeframe(c)]_vars
\* a pass has written its three points: a row below its replay's high, a row
\* with the PnL of its timestamp and a row of the week replay without PnL
C21_PassWroteBothReplays ==
    \E c \in Slots :
        /\ pc[c] = "done" /\ resp[c].status = 200 /\ resp[c].gapFilled = 3
        /\ \E r, s, w \in store :
              /\ r.apr = Null /\ r.drawdown_pct # Zero /\ r.nav_ath > r.nav
              /\ s.apr = Null /\ s.pnl # Null
              /\ w.apr = Null /\ w.pnl = Null /\ w.collected_at < s.collected_at

====
